---- MODULE Spec2Model ----
(***************************************************************************)
(* A model of sedac_gpw_parser/plot.py: the class Plot (constructor,       *)
(* _compute_image_extent, _add_padding, set_colormap, plot).               *)
(*                                                                         *)
(* Numbers.  Coordinates, cell sizes and cell values are integers.  The    *)
(* code's real-valued results are kept exact as numerators over a fixed    *)
(* denominator: the padded axes extent over PaddingDen, the colour-scale   *)
(* upper bound over PercentDen.  Rounding of binary floating point is not  *)
(* modelled.                                                               *)
(*                                                                         *)
(* Strings that the code inspects or builds (the folder, the output path)  *)
(* are sequences of one-character strings.                                 *)
(***************************************************************************)
EXTENDS Integers, Sequences, FiniteSets, TLC

VARIABLES args, dataset, fs, files, phase, err, self, lastCall, render

vars == <<args, dataset, fs, files, phase, err, self, lastCall, render>>

-----------------------------------------------------------------------------
(* Bounds of the model and the inputs drawn from them.                     *)

MaxCells == 3
MaxLen == 3
RowCounts == {0, 1, 2}
CellValues == {-1, 0, 1, 3}
\* lower-left corner and cell size of a grid: <<llcrnrlon, llcrnrlat, cellsize>>
GeoRefs == {<<0, 0, 1>>, <<-3, 5, 2>>}
FolderChars == {"p", "/"}
MainCountryId == 276
CountryIds == {MainCountryId, 999}
ValidCountryIds == {MainCountryId}
ColormapNames == {"Purples", "viridis", "nosuchmap"}
KnownColormaps == {"Purples", "viridis"}
Titles == {""}

None == <<>>
Some(x) == <<x>>

-----------------------------------------------------------------------------
(* Strings.                                                                *)

DefaultPlotFolder == <<".", "/", "p", "l", "o", "t", "s", "/">>
DefaultColormap == "Purples"
PngSuffix == <<".", "p", "n", "g">>
UnderColor == "0.8"

DigitChars == <<"0", "1", "2", "3", "4", "5", "6", "7", "8", "9">>

RECURSIVE NatToStr(_)
NatToStr(n) ==
    IF n < 10 THEN <<DigitChars[n + 1]>>
    ELSE Append(NatToStr(n \div 10), DigitChars[(n % 10) + 1])

\* str(country_id) for an int
IntToStr(n) == IF n < 0 THEN <<"-">> \o NatToStr(-n) ELSE NatToStr(n)

-----------------------------------------------------------------------------
(* The file system as os.path.exists and os.mkdir see it: the set of       *)
(* directories, each the list of its path components ("" and "." dropped), *)
(* with a flag for absolute paths.  The root and the working directory     *)
(* always exist and are writable.                                          *)

KeepComponent(cur, acc) ==
    IF cur = <<>> \/ cur = <<".">> THEN acc ELSE Append(acc, cur)

RECURSIVE SplitFrom(_, _, _)
SplitFrom(s, cur, acc) ==
    IF s = <<>> THEN KeepComponent(cur, acc)
    ELSE IF Head(s) = "/" THEN SplitFrom(Tail(s), <<>>, KeepComponent(cur, acc))
    ELSE SplitFrom(Tail(s), Append(cur, Head(s)), acc)

Resolve(s) == [abs |-> (s # <<>> /\ s[1] = "/"), comps |-> SplitFrom(s, <<>>, <<>>)]

DirExists(disk, p) == p.comps = <<>> \/ p \in disk

\* os.path.exists(path)
PathExists(disk, s) == s # <<>> /\ DirExists(disk, Resolve(s))

ParentOf(p) == [abs |-> p.abs, comps |-> SubSeq(p.comps, 1, Len(p.comps) - 1)]

\* os.mkdir(path): the directory set afterwards, or the error raised
Mkdir(disk, s) ==
    LET p == Resolve(s) IN
    IF s = <<>> \/ ~DirExists(disk, ParentOf(p))
        THEN [raised |-> "FileNotFoundError", disk |-> disk]
    ELSE IF DirExists(disk, p)
        THEN [raised |-> "FileExistsError", disk |-> disk]
    ELSE [raised |-> "none", disk |-> disk \cup {p}]

-----------------------------------------------------------------------------
(* Population grids.  A grid is its shape (n_row, n_col) and its cells in  *)
(* row-major order, the order in which numpy's boolean indexing lists them. *)

Grid(n_row, n_col, flat) == [shape |-> <<n_row, n_col>>, flat |-> flat]

GridsOfShape(n_row, n_col) ==
    {Grid(n_row, n_col, f) : f \in [1..(n_row * n_col) -> CellValues]}

\* every shape of at most MaxCells cells; a grid of no rows keeps its columns
GridShapes ==
    {sh \in RowCounts \X (1..MaxCells) : sh[1] * sh[2] <= MaxCells}

AllGrids == UNION {GridsOfShape(sh[1], sh[2]) : sh \in GridShapes}

\* the 4 x 4 grid of the end-to-end example
SampleGrid ==
    Grid(4, 4, <<0, 0, 1, 2,  0, 3, 4, 5,  6, 0, 0, 0,  0, 0, 0, 0>>)

FolderStrings == UNION {[1..n -> FolderChars] : n \in 0..MaxLen}

\* Population.__init__: the attributes the loader sets, or its failure
LoadPopulation(country_id, ds) ==
    IF country_id \in ValidCountryIds
        THEN [raised |-> "none",
              attrs |-> [_population |-> ds.population,
                         _llcrnrlon |-> ds.llcrnrlon,
                         _llcrnrlat |-> ds.llcrnrlat,
                         _cellsize |-> ds.cellsize]]
        ELSE [raised |-> "LoaderError", attrs |-> [a \in {} |-> None]]

-----------------------------------------------------------------------------
(* Plot.__init__ and the methods it calls.                                 *)

NoObject == [a \in {} |-> None]

\* lines 44-45, for a string that is not empty (the empty one raises)
NormalizeFolder(plot_folder) ==
    IF plot_folder[Len(plot_folder)] # "/" THEN plot_folder \o <<"/">>
    ELSE plot_folder

OutputPath(plot_folder, country_id) ==
    plot_folder \o IntToStr(country_id) \o PngSuffix

\* the extent with the row and column counts taken the wrong way round
ComputeImageExtentSwapped(ll_x, ll_y, cellsize, shape) ==
    LET n_row == shape[2]
        n_col == shape[1]
    IN  <<ll_x, ll_x + n_col * cellsize, ll_y, ll_y + n_row * cellsize>>

\* the extent with the cell size left out
ComputeImageExtentUnscaled(ll_x, ll_y, cellsize, shape) ==
    LET n_row == shape[1]
        n_col == shape[2]
    IN  <<ll_x, ll_x + n_col, ll_y, ll_y + n_row>>

ComputeImageExtent(ll_x, ll_y, cellsize, shape) ==
    LET n_row == shape[1]
        n_col == shape[2]
    IN  <<ll_x, ll_x + n_col * cellsize, ll_y, ll_y + n_row * cellsize>>

\* a lookup that ignores the name
GetCmapDefaultOnly(colormap) == [name |-> "Purples", under |-> <<>>]

\* cm.get_cmap(name): the named ramp, no under-range colour of its own
GetCmap(colormap) == [name |-> colormap, under |-> None]

\* a set_under that is left out
SetUnderSkipped(cmap, colour) == cmap

SetUnder(cmap, colour) == [cmap EXCEPT !.under = Some(colour)]

SetColormapResult(colormap) == SetUnder(GetCmap(colormap), UnderColor)

\* lines 52-58: the attributes of a constructed object
ConstructedObject(folder, country_id, attrs) ==
    [_population |-> attrs._population,
     _llcrnrlon |-> attrs._llcrnrlon,
     _llcrnrlat |-> attrs._llcrnrlat,
     _cellsize |-> attrs._cellsize,
     _country_id |-> country_id,
     plot_folder |-> folder,
     _output_path |-> OutputPath(folder, country_id),
     _img_extent |-> ComputeImageExtent(attrs._llcrnrlon, attrs._llcrnrlat,
                                        attrs._cellsize, attrs._population.shape),
     _cmap |-> SetColormapResult(DefaultColormap)]

\* lines 47-48
EnsureFolder(disk, folder) ==
    IF PathExists(disk, folder) THEN [raised |-> "none", disk |-> disk]
    ELSE Mkdir(disk, folder)

\* a constructor that loads the country before it touches the folder
CtorOutcomeLoaderFirst(plot_folder, country_id, disk, ds) ==
    LET loaded == LoadPopulation(country_id, ds)
        folder == NormalizeFolder(plot_folder)
        made == EnsureFolder(disk, folder)
    IN  IF loaded.raised # "none"
            THEN [raised |-> loaded.raised, disk |-> disk, obj |-> NoObject]
        ELSE IF plot_folder = <<>>
            THEN [raised |-> "IndexError", disk |-> disk, obj |-> NoObject]
        ELSE IF made.raised # "none"
            THEN [raised |-> made.raised, disk |-> disk, obj |-> NoObject]
        ELSE [raised |-> "none", disk |-> made.disk,
              obj |-> ConstructedObject(folder, country_id, loaded.attrs)]

\* The whole constructor: what it raises, the directories afterwards and the
\* attributes set on the object.
CtorOutcome(plot_folder, country_id, disk, ds) ==
    LET folder == NormalizeFolder(plot_folder)
        made == EnsureFolder(disk, folder)
        loaded == LoadPopulation(country_id, ds)
    IN  IF plot_folder = <<>>
            THEN [raised |-> "IndexError", disk |-> disk, obj |-> NoObject]
        ELSE IF made.raised # "none"
            THEN [raised |-> made.raised, disk |-> disk, obj |-> NoObject]
        ELSE IF loaded.raised # "none"
            THEN [raised |-> loaded.raised, disk |-> made.disk, obj |-> NoObject]
        ELSE [raised |-> "none", disk |-> made.disk,
              obj |-> ConstructedObject(folder, country_id, loaded.attrs)]

-----------------------------------------------------------------------------
(* Plot.plot and the helpers it calls.                                     *)

\* padding=0.025 as PaddingNum / PaddingDen
PaddingNum == 25
PaddingDen == 1000
FigHeight == 8
\* the q of np.percentile(..., 90), over PercentDen
Percent == 90
PercentDen == 100

\* a padding that uses the horizontal margin on both axes
AddPaddingOneDelta(img_extent, padding_num) ==
    LET delta_x == (img_extent[2] - img_extent[1]) * padding_num
    IN  <<img_extent[1] * PaddingDen - delta_x, img_extent[2] * PaddingDen + delta_x,
          img_extent[3] * PaddingDen - delta_x, img_extent[4] * PaddingDen + delta_x>>

\* _add_padding: the extent handed to axs.set_extent, each bound a numerator
\* over PaddingDen
AddPadding(img_extent, padding_num) ==
    LET ll_x == img_extent[1]
        ur_x == img_extent[2]
        ll_y == img_extent[3]
        ur_y == img_extent[4]
        delta_x == (ur_x - ll_x) * padding_num
        delta_y == (ur_y - ll_y) * padding_num
    IN  <<ll_x * PaddingDen - delta_x, ur_x * PaddingDen + delta_x,
          ll_y * PaddingDen - delta_y, ur_y * PaddingDen + delta_y>>

\* a mask that lets the zero cells through
IsNotNegative(v) == v >= 0

IsPositive(v) == v > 0

\* data[data > 0]: the selected cells, in row-major order
PositiveCells(data) == SelectSeq(data.flat, IsPositive)

RECURSIVE InsertSorted(_, _)
InsertSorted(sorted, v) ==
    IF sorted = <<>> THEN <<v>>
    ELSE IF v <= Head(sorted) THEN <<v>> \o sorted
    ELSE <<Head(sorted)>> \o InsertSorted(Tail(sorted), v)

RECURSIVE SortAscending(_)
SortAscending(a) == IF a = <<>> THEN <<>> ELSE InsertSorted(SortAscending(Tail(a)), Head(a))

\* np.percentile(a, q) for a non-empty a, linear interpolation between the two
\* nearest ranks; the result is a numerator over PercentDen
Percentile(a, q) ==
    LET sorted == SortAscending(a)
        n == Len(sorted)
        virtual == (n - 1) * q
        lo == virtual \div PercentDen
        frac == virtual % PercentDen
        hi == IF lo + 1 < n THEN lo + 1 ELSE n - 1
    IN  sorted[lo + 1] * PercentDen + (sorted[hi + 1] - sorted[lo + 1]) * frac

\* lines 143-146, a numerator over PercentDen
ComputeVmax(data) ==
    IF Len(PositiveCells(data)) > 0 THEN Percentile(PositiveCells(data), Percent)
    ELSE 0

UnderCell(cmap) ==
    [kind |-> "under", ramp |-> cmap.name, colour |-> cmap.under, num |-> 0, den |-> 1]

\* a colour of the ramp, at position num / den of it
RampCell(cmap, num, den) ==
    [kind |-> "ramp", ramp |-> cmap.name, colour |-> None, num |-> num, den |-> den]

\* The colour a cell of value v has in the image of
\* imshow(vmin=0, vmax=vmax, cmap=cmap) once the colorbar is attached: the
\* value is normalised to (v - vmin) / (vmax - vmin); below 0 is the
\* under-range colour, above 1 the top of the ramp.  vmax is over PercentDen.
\* With vmax = vmin = 0 the colorbar widens the range to (-1/10, 1/10).
CellColour(v, vmax, cmap) ==
    IF vmax > 0 THEN
        IF v < 0 THEN UnderCell(cmap)
        ELSE IF v * PercentDen > vmax THEN RampCell(cmap, 1, 1)
        ELSE RampCell(cmap, v * PercentDen, vmax)
    ELSE IF v * 10 < -1 THEN UnderCell(cmap)
    ELSE IF v * 10 > 1 THEN RampCell(cmap, 1, 1)
    ELSE RampCell(cmap, v * 10 + 1, 2)

\* axs.imshow(data, vmin=0, vmax=vmax, extent=..., cmap=...)
Imshow(data, vmax, img_extent, cmap) ==
    [cells |-> [i \in 1..Len(data.flat) |->
                   CellColour(data.flat[i], vmax, cmap)],
     extent |-> img_extent,
     cmap |-> cmap]

IdleRender ==
    [stage |-> "idle", raised |-> "none", figure_open |-> FALSE,
     figsize |-> None, axes_extent |-> None, vmax |-> None, image |-> None,
     title |-> None, shown |-> FALSE, saved |-> FALSE]

\* The whole of plot(title, show) on the object obj.  fault names the library
\* call that fails in this run, if any: "draw" (the map layers, lines
\* 132-140), "show" or "savefig".  zero_div is the error a zero height gives
\* at line 131: ZeroDivisionError from Python floats, ValueError from
\* plt.figure when numpy floats make the width inf or nan.
PlotOutcome(obj, title, show, fault, zero_div) ==
    LET ext == obj._img_extent
        width == ext[2] - ext[1]
        height == ext[4] - ext[3]
        vmax == ComputeVmax(obj._population)
        drawn == [IdleRender EXCEPT
                    !.figure_open = TRUE,
                    !.figsize = Some(<<FigHeight * width, height, FigHeight>>),
                    !.axes_extent = Some(AddPadding(ext, PaddingNum)),
                    !.vmax = Some(vmax),
                    !.image = Some(Imshow(obj._population, vmax, ext, obj._cmap)),
                    !.title = Some(title)]
    IN  IF height = 0
            THEN [IdleRender EXCEPT !.stage = "figure", !.raised = zero_div]
        ELSE IF fault = "draw"
            THEN [IdleRender EXCEPT
                    !.stage = "draw", !.raised = "LibraryError",
                    !.figure_open = TRUE,
                    !.figsize = Some(<<FigHeight * width, height, FigHeight>>)]
        ELSE IF show /\ fault = "show"
            THEN [drawn EXCEPT !.stage = "show", !.raised = "LibraryError"]
        ELSE IF fault = "savefig"
            THEN [drawn EXCEPT !.stage = "savefig", !.raised = "LibraryError",
                               !.shown = show]
        ELSE [drawn EXCEPT !.stage = "done", !.shown = show, !.saved = TRUE,
                           !.figure_open = FALSE]

Call(op, a) == [op |-> op, args |-> a]

Datasets(grids) ==
    {[population |-> g, llcrnrlon |-> c[1], llcrnrlat |-> c[2], cellsize |-> c[3]] :
        g \in grids, c \in GeoRefs}

\* Before construction: the arguments of the call, the data the loader will
\* find for a valid country, and the directories that exist.
Init ==
    /\ \/ /\ dataset \in Datasets(AllGrids)
          /\ args \in [plot_folder : {DefaultPlotFolder}, country_id : CountryIds]
          /\ fs = {}
       \/ /\ dataset \in Datasets({SampleGrid})
          /\ args \in [plot_folder : FolderStrings, country_id : CountryIds]
          /\ fs \in {{}, {Resolve(<<"p">>)}}
    /\ files = {}
    /\ phase = "new"
    /\ err = "none"
    /\ self = NoObject
    /\ lastCall = Call("none", <<>>)
    /\ render = IdleRender

\* Plot(country_id, plot_folder)
Construct ==
    /\ phase = "new"
    /\ LET out == CtorOutcome(args.plot_folder, args.country_id, fs, dataset)
       IN  /\ fs' = out.disk
           /\ err' = out.raised
           /\ phase' = IF out.raised = "none" THEN "constructed" ELSE "failed"
           /\ self' = IF out.raised = "none" THEN out.obj ELSE NoObject
    /\ lastCall' = Call("__init__", <<args.country_id, args.plot_folder>>)
    /\ UNCHANGED <<args, dataset, files, render>>

\* set_colormap(colormap)
SetColormap(colormap) ==
    /\ phase = "constructed"
    /\ IF colormap \in KnownColormaps
           THEN /\ self' = [self EXCEPT !._cmap = SetColormapResult(colormap)]
                /\ err' = "none"
           ELSE /\ self' = self
                /\ err' = "ValueError"
    /\ lastCall' = Call("set_colormap", <<colormap>>)
    /\ UNCHANGED <<args, dataset, fs, files, phase, render>>

Faults == {"none", "draw", "show", "savefig"}
ZeroDivErrors == {"ZeroDivisionError", "ValueError"}

\* the outcomes of the environment that can make a difference to a call
FaultsFor(obj, show) ==
    IF obj._img_extent[4] = obj._img_extent[3] THEN {"none"}
    ELSE IF show THEN Faults ELSE Faults \ {"show"}

ZeroDivErrorsFor(obj) ==
    IF obj._img_extent[4] = obj._img_extent[3] THEN ZeroDivErrors
    ELSE {"ZeroDivisionError"}

\* plot(title, show)
Plot(title, show) ==
    /\ phase = "constructed"
    /\ \E fault \in FaultsFor(self, show), zero_div \in ZeroDivErrorsFor(self) :
            render' = PlotOutcome(self, title, show, fault, zero_div)
    /\ files' = IF render'.saved THEN files \cup {self._output_path} ELSE files
    /\ err' = render'.raised
    /\ lastCall' = Call("plot", <<title, show>>)
    /\ UNCHANGED <<args, dataset, fs, phase, self>>

Next ==
    \/ Construct
    \/ \E colormap \in ColormapNames : SetColormap(colormap)
    \/ \E title \in Titles, show \in BOOLEAN : Plot(title, show)

Spec == Init /\ [][Next]_vars

-----------------------------------------------------------------------------
(* Properties.                                                             *)

Constructed == phase = "constructed"
Rows == dataset.population.shape[1]
Cols == dataset.population.shape[2]
Cells == dataset.population.flat
Plotted == lastCall.op = "plot"
ImageDrawn == Plotted /\ render.image # None

\* C1: after construction the stored extent is
\* (lon0, lon0 + cols*cellsize, lat0, lat0 + rows*cellsize), and its maxima are
\* not below its minima.
C1_ExtentFromGrid ==
    Constructed =>
        /\ self._img_extent =
              <<dataset.llcrnrlon, dataset.llcrnrlon + Cols * dataset.cellsize,
                dataset.llcrnrlat, dataset.llcrnrlat + Rows * dataset.cellsize>>
        /\ self._img_extent[2] >= self._img_extent[1]
        /\ self._img_extent[4] >= self._img_extent[3]

\* two rows, one column, cell size 2, corner (-3, 5)
C1_Witness ==
    /\ Constructed
    /\ dataset.population.shape = <<2, 1>>
    /\ self._img_extent = <<-3, -1, 5, 9>>

\* The k-th smallest of the strictly positive cells, by counting ranks.
PositiveIndices == {i \in 1..Len(Cells) : Cells[i] > 0}
RankBelow(x) == Cardinality({i \in PositiveIndices : Cells[i] < x})
RankUpTo(x) == Cardinality({i \in PositiveIndices : Cells[i] <= x})
KthPositive(k) ==
    CHOOSE x \in {Cells[i] : i \in PositiveIndices} : RankBelow(x) < k /\ k <= RankUpTo(x)

\* the 90th percentile of the positive cells, times 10: rank 1 + 9(n-1)/10,
\* interpolated between its two neighbours
NinetiethTimesTen ==
    LET n == Cardinality(PositiveIndices)
        h == 9 * (n - 1)
        k == (h \div 10) + 1
        up == IF k < n THEN k + 1 ELSE n
    IN  10 * KthPositive(k) + (h % 10) * (KthPositive(up) - KthPositive(k))

\* C2: when some cell is strictly positive, vmax is the 90th percentile of
\* exactly the strictly positive cells.
C2_VmaxIsPercentileOfPositives ==
    (Plotted /\ render.vmax # None /\ PositiveIndices # {}) =>
        10 * render.vmax[1] = PercentDen * NinetiethTimesTen

\* cells -1, 1, 3 (in some order): the percentile of {1, 3} is 2.8
C2_Witness ==
    /\ Plotted
    /\ render.vmax = Some(280)
    /\ \E i \in 1..Len(Cells) : Cells[i] < 0

\* C3 as stated: with every cell <= 0, the empty grid included, vmax is 0 and
\* the call goes on to save the file (unless a library call fails).
C3_Original ==
    (Plotted /\ render.raised # "LibraryError"
        /\ \A i \in 1..Len(Cells) : Cells[i] <= 0) =>
            /\ render.vmax = Some(0)
            /\ render.saved

\* C4: _add_padding sets the axes extent to the image extent widened by
\* W/40 on the left and right and by H/40 below and above, and plot leaves the
\* stored extent as it was.
C4_PaddingState ==
    (Plotted /\ render.axes_extent # None) =>
        LET e == self._img_extent
            a == render.axes_extent[1]
            W == e[2] - e[1]
            H == e[4] - e[3]
        IN  /\ 40 * a[1] = PaddingDen * (40 * e[1] - W)
            /\ 40 * a[2] = PaddingDen * (40 * e[2] + W)
            /\ 40 * a[3] = PaddingDen * (40 * e[3] - H)
            /\ 40 * a[4] = PaddingDen * (40 * e[4] + H)

C4_Padding ==
    /\ []C4_PaddingState
    /\ [][lastCall'.op = "plot" => self'._img_extent = self._img_extent]_vars

\* extent (-3, -1, 5, 9): W = 2, H = 4
C4_Witness ==
    /\ Plotted
    /\ render.axes_extent = Some(<<-3050, -950, 4900, 9100>>)

OtherFieldsKept ==
    /\ self'._img_extent = self._img_extent
    /\ self'._population = self._population
    /\ self'._country_id = self._country_id
    /\ self'._output_path = self._output_path

\* C5: set_colormap with a valid name makes that ramp, with the under-range
\* colour set again, the active one, and keeps extent, grid, country id and
\* output path; the next plot draws with it.
C5_SetColormap ==
    /\ [][(lastCall'.op = "set_colormap" /\ err' = "none") =>
            /\ self'._cmap = [name |-> lastCall'.args[1], under |-> Some(UnderColor)]
            /\ OtherFieldsKept]_vars
    /\ [][(lastCall.op = "set_colormap" /\ err = "none"
            /\ lastCall'.op = "plot" /\ render'.image # None) =>
            /\ render'.image[1].cmap.name = lastCall.args[1]
            /\ render'.image[1].cmap.under = Some(UnderColor)
            /\ \A i \in DOMAIN render'.image[1].cells :
                  render'.image[1].cells[i].ramp = lastCall.args[1]]_vars

C5_Witness ==
    /\ ImageDrawn
    /\ render.image[1].cmap = [name |-> "viridis", under |-> Some(UnderColor)]
    /\ render.saved

EndsWithSeparator(s) == s # <<>> /\ s[Len(s)] = "/"

\* C6 as stated: for every folder string (and a country the loader knows) the
\* folder is normalised to end in one more "/" only if it had none, exists
\* afterwards, and the output path is <folder><country_id>.png.
C6_Original ==
    (phase # "new" /\ args.country_id \in ValidCountryIds) =>
        /\ Constructed
        /\ EndsWithSeparator(self.plot_folder)
        /\ \/ self.plot_folder = args.plot_folder
           \/ /\ ~EndsWithSeparator(args.plot_folder)
              /\ self.plot_folder = args.plot_folder \o <<"/">>
        /\ Resolve(self.plot_folder).comps # <<>> => Resolve(self.plot_folder) \in fs
        /\ self._output_path = self.plot_folder \o <<"2", "7", "6">> \o PngSuffix

\* C7 as stated: a plot() call that gets to the display step saves the figure
\* whether or not it is shown, and closes it whatever the display did.
C7_Original ==
    (Plotted /\ render.stage \in {"show", "done"}) =>
        /\ ~render.figure_open
        /\ render.stage = "done" => render.saved

C9_FieldsState ==
    Constructed =>
        /\ self._country_id = args.country_id
        /\ self._population = dataset.population
        /\ self._output_path =
              NormalizeFolder(args.plot_folder) \o IntToStr(args.country_id) \o PngSuffix
        /\ self._img_extent =
              <<dataset.llcrnrlon, dataset.llcrnrlon + Cols * dataset.cellsize,
                dataset.llcrnrlat, dataset.llcrnrlat + Rows * dataset.cellsize>>

\* C9: once constructed, country id, output path and grid stay those of the
\* construction and the extent stays the one derived from the grid; plot()
\* changes no field, so two plot() calls in a row draw with the same extent,
\* ramp and upper bound.
C9_Lifecycle ==
    /\ []C9_FieldsState
    /\ [][Constructed => (OtherFieldsKept /\ self'.plot_folder = self.plot_folder)]_vars
    /\ [][lastCall'.op = "plot" => self' = self]_vars
    /\ [][(ImageDrawn /\ lastCall'.op = "plot" /\ render'.image # None) =>
            /\ render'.image[1].extent = render.image[1].extent
            /\ render'.image[1].cmap = render.image[1].cmap
            /\ render'.vmax = render.vmax
            /\ render'.axes_extent = render.axes_extent]_vars

\* a second plot after a set_colormap and a first plot
C9_Witness ==
    /\ ImageDrawn
    /\ self._cmap.name = "viridis"
    /\ self._output_path \in files
    /\ render.shown
    /\ render.stage = "savefig"

\* C10: when the loader fails, the constructor raises its error and sets no
\* attribute, yet the normalised folder exists: it was created before the
\* loader ran and is not removed.
C10_FolderBeforeLoader ==
    [][err' = "LoaderError" =>
        /\ phase' = "failed"
        /\ DOMAIN self' = {}
        /\ PathExists(fs', NormalizeFolder(args.plot_folder))
        /\ ~PathExists(fs, NormalizeFolder(args.plot_folder)) => fs' # fs]_vars

C10_Witness ==
    /\ err = "LoaderError"
    /\ args.plot_folder = DefaultPlotFolder
    /\ fs = {Resolve(DefaultPlotFolder)}

====
